---- MODULE Spec2Model ----
(***************************************************************************)
(* Prompt Execution Orchestration Engine of rubi-studio.                   *)
(*                                                                         *)
(* Two variants of execute_prompt are modelled:                            *)
(*   - the synchronous handler of back-end-v2/app/main.py, which awaits    *)
(*     the vendor and writes one terminal record (specification Spec);     *)
(*   - the asynchronous handler of back-end/app/main.py, which commits a   *)
(*     PENDING record and hands the work to process_prompt_in_background   *)
(*     (specification SpecAsync).                                          *)
(* The two pure functions the handler relies on are also run on their own: *)
(*   - validators.validate_variables_against_schema, on every variable map *)
(*     and schema of a small family (specification SpecValidate);          *)
(*   - the providers' calculate_cost, on every provider, model name and    *)
(*     token count up to MaxTokens (specification SpecCost).               *)
(* One provider instance receiving calls in any order is specification     *)
(* SpecProvider; the two ledger reads, get_execution_history and           *)
(* get_execution, answered from a ledger of several users, are             *)
(* specification SpecRead.                                                 *)
(*                                                                         *)
(* Encoding.  Python None is the string "None" for names and texts and     *)
(* NoneTok (-1) for a token count or cap.  Variable values are strings;    *)
(* the ones in IntVals stand for JSON integers.  Money is in micro-USD, so *)
(* round(x, 6) is a rounding to an integer and a price is an integer       *)
(* number of micro-USD per 1000 tokens.  Wall-clock durations are not      *)
(* modelled.                                                               *)
(***************************************************************************)
EXTENDS Integers, Sequences, FiniteSets, TLC

\* ------------------------------------------------------------------ bounds
\* number of execute_prompt calls that may be in flight together
NumCalls == 2

Calls == 1..NumCalls

\* largest of the small token counts calculate_cost is called with
MaxTokens == 40

\* number of calls one provider instance receives
MaxInstanceCalls == 3

\* the number of rows of the ledger a read is answered from
MaxRows == 2

\* ------------------------------------------------------- variable maps
VarNames == {"name", "tone", "topic", "root"}
IntVals == {"#7"}
Vals == {"a", "b", "#7"}
None == "None"
NoneTok == -1

EmptyMap == << >>

\* JSON type of a value, as jsonschema's "type" keyword sees it
TypeOf(v) == IF v \in IntVals THEN "integer" ELSE "string"

\* ------------------------------------------------- validators.py
NoSchema == [properties |-> EmptyMap, required |-> {}, empty |-> TRUE]

\* the validator run without the "required" keyword
IterErrorsTypeOnly(variables, schema) ==
    { [path |-> <<p>>, keyword |-> "type", subject |-> variables[p]] :
          p \in {q \in DOMAIN variables \cap DOMAIN schema.properties :
                     TypeOf(variables[q]) # schema.properties[q].type} }

\* Draft7Validator(schema).iter_errors(variables): one error per violated
\* keyword; error.path is empty for "required" (it applies to the object)
\* and the property name for a "type" violation below "properties".
IterErrors(variables, schema) ==
    { [path |-> << >>, keyword |-> "required", subject |-> p] :
          p \in {q \in schema.required : q \notin DOMAIN variables} }
    \cup
    { [path |-> <<p>>, keyword |-> "type", subject |-> variables[p]] :
          p \in {q \in DOMAIN variables \cap DOMAIN schema.properties :
                     TypeOf(variables[q]) # schema.properties[q].type} }

\* the missing property's name used as the path of a "required" error
ErrorPathNamesProperty(error) ==
    IF error.path = << >> THEN error.subject ELSE error.path[1]

\* path = ".".join(str(p) for p in error.path) if error.path else "root"
ErrorPath(error) == IF error.path = << >> THEN "root" ELSE error.path[1]

\* only the first error reported, as jsonschema.validate would
ErrorMessagesFirstOnly(errors) ==
    IF errors = {} THEN {}
    ELSE LET e == CHOOSE x \in errors : TRUE
         IN  { [path |-> ErrorPath(e), keyword |-> e.keyword,
                subject |-> e.subject] }

\* lines 36-39: one "path: message" line per error
ErrorMessages(errors) ==
    { [path |-> ErrorPath(e), keyword |-> e.keyword, subject |-> e.subject] :
          e \in errors }

\* every declared default written into the copy, supplied or not
EnrichOverwrites(variables, schema) ==
    LET props == schema.properties
        added == {p \in DOMAIN props : props[p].has_default}
    IN  [p \in DOMAIN variables \cup added |->
             IF p \in added THEN props[p].default ELSE variables[p]]

\* enriched = variables.copy(); defaults of absent properties are injected
Enrich(variables, schema) ==
    LET props == schema.properties
        added == {p \in DOMAIN props :
                      p \notin DOMAIN variables /\ props[p].has_default}
    IN  [p \in DOMAIN variables \cup added |->
             IF p \in DOMAIN variables THEN variables[p]
                                       ELSE props[p].default]

\* the variant that keeps only string values when there is no schema
validate_variables_strings_only(variables, schema) ==
    IF schema.empty
    THEN [ok |-> TRUE,
          value |-> [p \in {k \in DOMAIN variables :
                                TypeOf(variables[k]) = "string"} |->
                         variables[p]],
          errors |-> {}]
    ELSE LET errors == IterErrors(variables, schema)
         IN  IF errors # {}
             THEN [ok |-> FALSE, value |-> EmptyMap,
                   errors |-> ErrorMessages(errors)]
             ELSE [ok |-> TRUE, value |-> Enrich(variables, schema),
                   errors |-> {}]

\* validate_variables_against_schema: ok with the enriched map, or the
\* ValueError carrying every message
validate_variables_against_schema(variables, schema) ==
    IF schema.empty
    THEN [ok |-> TRUE, value |-> variables, errors |-> {}]
    ELSE LET errors == IterErrors(variables, schema)
         IN  IF errors # {}
             THEN [ok |-> FALSE, value |-> EmptyMap,
                   errors |-> ErrorMessages(errors)]
             ELSE [ok |-> TRUE, value |-> Enrich(variables, schema),
                   errors |-> {}]

\* ------------------------------------------------- llm_providers.py
\* self.pricing of each provider, USD per 1000 tokens, in micro-USD
OpenAIPricing ==
    [m \in {"gpt-4", "gpt-4-turbo", "gpt-3.5-turbo"} |->
        CASE m = "gpt-4"         -> [input |-> 30000, output |-> 60000]
          [] m = "gpt-4-turbo"   -> [input |-> 10000, output |-> 30000]
          [] m = "gpt-3.5-turbo" -> [input |-> 500,   output |-> 1500]]

GeminiPricing ==
    [m \in {"gemini-pro", "gemini-2.5-flash"} |->
        CASE m = "gemini-pro"       -> [input |-> 250, output |-> 500]
          [] m = "gemini-2.5-flash" -> [input |-> 75,  output |-> 300]]

ClaudePricing ==
    [m \in {"claude-3-opus-20240229", "claude-3-sonnet-20240229",
            "claude-3-haiku-20240307"} |->
        CASE m = "claude-3-opus-20240229"   -> [input |-> 15000, output |-> 75000]
          [] m = "claude-3-sonnet-20240229" -> [input |-> 3000,  output |-> 15000]
          [] m = "claude-3-haiku-20240307"  -> [input |-> 250,   output |-> 1250]]

\* LLMFactory._providers
ProviderNames == {"openai", "gemini", "claude"}

Pricing(provider) ==
    CASE provider = "openai" -> OpenAIPricing
      [] provider = "gemini" -> GeminiPricing
      [] provider = "claude" -> ClaudePricing

\* the model calculate_cost falls back to when the name is not in the table
FallbackModel(provider) ==
    CASE provider = "openai" -> "gpt-4"
      [] provider = "gemini" -> "gemini-pro"
      [] provider = "claude" -> "claude-3-sonnet-20240229"

\* the environment variable each provider's __init__ reads
CredentialVar(provider) ==
    CASE provider = "openai" -> "OPENAI_API_KEY"
      [] provider = "gemini" -> "GEMINI_API_KEY"
      [] provider = "claude" -> "ANTHROPIC_API_KEY"

\* The cost is computed in binary floating point and rounded by
\* round(cost, 6).  Where the exact cost lies half-way between two
\* micro-USD the floating-point sum lands just above or just below the
\* half, and round follows it.  FloatAboveHalf lists <<input price, output
\* price, tokens>> of the half-way cases where it lands above, for the
\* prices of the three tables and the token counts 0..64, 1000 and 1200
\* (the half-way cases not listed land below).
FloatAboveHalf ==
    {<<500, 1500, t>> : t \in {10, 14, 22, 26, 30, 42, 46, 58}}
    \cup {<<250, 500, t>> :
              t \in {6, 22, 24, 25, 38, 40, 41, 51, 54, 56, 57, 1000}}
    \cup {<<250, 1250, t>> : t \in {7, 11, 15, 23, 27, 31, 35, 43, 55, 59}}

\* the quotient x / 1000 cut off instead of rounded
RoundDiv1000Truncates(x, above) == x \div 1000

\* round(x / 1000) for an integer x >= 0: to the nearest integer, a half
\* going up when the floating-point value is above it
RoundDiv1000(x, above) ==
    LET q == x \div 1000
        r == x % 1000
    IN  IF r > 500 \/ (r = 500 /\ above) THEN q + 1 ELSE q

\* the OpenAI variant charging an unlisted model at its cheapest price
OpenAIProvider_calculate_cost_cheapest(pricing, tokens, model) ==
    LET m             == IF model \notin DOMAIN pricing
                         THEN "gpt-3.5-turbo" ELSE model
        input_tokens  == (tokens * 3) \div 4
        output_tokens == tokens \div 4
    IN  RoundDiv1000(input_tokens * pricing[m].input
                     + output_tokens * pricing[m].output,
                     <<pricing[m].input, pricing[m].output, tokens>>
                         \in FloatAboveHalf)

\* OpenAIProvider.calculate_cost(tokens, model), self.pricing given:
\*   input_tokens = int(tokens * 0.75); output_tokens = int(tokens * 0.25)
\*   round(input_tokens/1000 * pin + output_tokens/1000 * pout, 6)
OpenAIProvider_calculate_cost(pricing, tokens, model) ==
    LET m             == IF model \notin DOMAIN pricing THEN "gpt-4" ELSE model
        input_tokens  == (tokens * 3) \div 4
        output_tokens == tokens \div 4
    IN  RoundDiv1000(input_tokens * pricing[m].input
                     + output_tokens * pricing[m].output,
                     <<pricing[m].input, pricing[m].output, tokens>>
                         \in FloatAboveHalf)

\* the Gemini variant apportioning 70% / 30%
GeminiProvider_calculate_cost_70_30(pricing, tokens, model) ==
    LET m             == IF model \notin DOMAIN pricing
                         THEN "gemini-pro" ELSE model
        input_tokens  == (tokens * 7) \div 10
        output_tokens == (tokens * 3) \div 10
    IN  RoundDiv1000(input_tokens * pricing[m].input
                     + output_tokens * pricing[m].output,
                     <<pricing[m].input, pricing[m].output, tokens>>
                         \in FloatAboveHalf)

\* GeminiProvider.calculate_cost(tokens, model)
GeminiProvider_calculate_cost(pricing, tokens, model) ==
    LET m             == IF model \notin DOMAIN pricing
                         THEN "gemini-pro" ELSE model
        input_tokens  == (tokens * 3) \div 4
        output_tokens == tokens \div 4
    IN  RoundDiv1000(input_tokens * pricing[m].input
                     + output_tokens * pricing[m].output,
                     <<pricing[m].input, pricing[m].output, tokens>>
                         \in FloatAboveHalf)

\* the Claude variant taking the remainder of the division by 4 as the
\* output share
ClaudeProvider_calculate_cost_remainder(pricing, tokens, model) ==
    LET m             == IF model \notin DOMAIN pricing
                         THEN "claude-3-sonnet-20240229" ELSE model
        input_tokens  == (tokens * 3) \div 4
        output_tokens == tokens % 4
    IN  RoundDiv1000(input_tokens * pricing[m].input
                     + output_tokens * pricing[m].output,
                     <<pricing[m].input, pricing[m].output, tokens>>
                         \in FloatAboveHalf)

\* ClaudeProvider.calculate_cost(tokens, model)
ClaudeProvider_calculate_cost(pricing, tokens, model) ==
    LET m             == IF model \notin DOMAIN pricing
                         THEN "claude-3-sonnet-20240229" ELSE model
        input_tokens  == (tokens * 3) \div 4
        output_tokens == tokens \div 4
    IN  RoundDiv1000(input_tokens * pricing[m].input
                     + output_tokens * pricing[m].output,
                     <<pricing[m].input, pricing[m].output, tokens>>
                         \in FloatAboveHalf)

\* provider.calculate_cost(tokens, model) of the provider the factory gave,
\* self.pricing being the provider's own table
ProviderCost(provider, pricing, tokens, model) ==
    CASE provider = "openai" ->
             OpenAIProvider_calculate_cost(pricing, tokens, model)
      [] provider = "gemini" ->
             GeminiProvider_calculate_cost(pricing, tokens, model)
      [] provider = "claude" ->
             ClaudeProvider_calculate_cost(pricing, tokens, model)

calculate_cost(provider, tokens, model) ==
    ProviderCost(provider, Pricing(provider), tokens, model)

\* tokens * 0.75 raises TypeError when the vendor reported no token count
CostRaises(tokens) == tokens = NoneTok

\* the factory answering an unknown name with the OpenAI provider
get_provider_or_default(name, environ) ==
    LET known == IF name \in ProviderNames THEN name ELSE "openai"
    IN  IF CredentialVar(known) \notin environ
        THEN [ok |-> FALSE, error |-> "credential_not_set",
              listed |-> {CredentialVar(known)}, provider |-> None]
        ELSE [ok |-> TRUE, error |-> None, listed |-> {}, provider |-> known]

\* the factory building a provider whose __init__ does not read the
\* credential
get_provider_unchecked(name, environ) ==
    IF name \notin ProviderNames
    THEN [ok |-> FALSE, error |-> "unknown_provider",
          listed |-> ProviderNames, provider |-> None]
    ELSE [ok |-> TRUE, error |-> None, listed |-> {}, provider |-> name]

\* LLMFactory.get_provider(name) under the environment env: the provider,
\* or the ValueError of the factory (unknown name, listing the known ones)
\* or of the provider's __init__ (credential not set)
get_provider(name, environ) ==
    IF name \notin ProviderNames
    THEN [ok |-> FALSE, error |-> "unknown_provider",
          listed |-> ProviderNames, provider |-> None]
    ELSE IF CredentialVar(name) \notin environ
    THEN [ok |-> FALSE, error |-> "credential_not_set",
          listed |-> {CredentialVar(name)}, provider |-> None]
    ELSE [ok |-> TRUE, error |-> None, listed |-> {}, provider |-> name]

\* LLMFactory.list_providers()
list_providers == ProviderNames

\* ------------------------------------------------- expert prompts
\* str.format(**variables) on a template: the named fields it references;
\* a positional field ("{}" or "{0}") raises IndexError since no positional
\* argument is passed.
Template(fields, positional) == [fields |-> fields, positional |-> positional]

Prop(type) == [type |-> type, has_default |-> FALSE, default |-> None]
PropDefault(type, default) ==
    [type |-> type, has_default |-> TRUE, default |-> default]

\* rows of expert_prompts the executions run against
ExpertPrompts ==
    (1 :> [template |-> Template({"name"}, FALSE),
           variables_schema |-> NoSchema])
    @@
    (2 :> [template |-> Template({"name", "tone"}, FALSE),
           variables_schema |->
               [properties |-> ("name" :> Prop("string")) @@
                               ("tone" :> PropDefault("string", "formal")),
                required |-> {"name"}, empty |-> FALSE]])
    @@
    (3 :> [template |-> Template({"name", "topic"}, FALSE),
           variables_schema |->
               [properties |-> ("name" :> Prop("string")),
                required |-> {"name"}, empty |-> FALSE]])
    @@
    (4 :> [template |-> Template({}, TRUE),
           variables_schema |-> NoSchema])

\* template.format(**variables)
Format(template, variables) ==
    IF template.positional THEN [ok |-> FALSE, error |-> "IndexError"]
    ELSE IF \E f \in template.fields : f \notin DOMAIN variables
    THEN [ok |-> FALSE, error |-> "KeyError"]
    ELSE [ok |-> TRUE, error |-> None]

\* ------------------------------------------------- requests
Users == {1, 2}
Omitted == "Omitted"

\* get_current_user: the authenticated user behind each call
CurrentUser(c) == IF c % 2 = 1 THEN 1 ELSE 2

\* the request a typical caller sends: variables for the prompt, provider
\* and model left out
BaseRequest ==
    [prompt_id |-> 2, variables |-> ("name" :> "a"),
     llm_provider |-> Omitted, llm_model |-> Omitted, max_tokens |-> NoneTok]

RequestSpace ==
    [prompt_id    : {1, 2, 3, 4, 9},
     variables    : {EmptyMap, ("name" :> "a"), ("name" :> "#7")},
     llm_provider : {Omitted, None, "gemini", "claude", "foo"},
     llm_model    : {Omitted, None},
     max_tokens   : {NoneTok, 256}]

Differences(r, q) ==
    Cardinality({f \in DOMAIN r : r[f] # q[f]})

\* the requests the callers send: the base request with at most one part
\* changed, and the template "Hello {name}" called with no variables
Requests ==
    {r \in RequestSpace : Differences(r, BaseRequest) <= 1 /\ r.prompt_id # 1}
    \cup {[BaseRequest EXCEPT !.prompt_id = 1, !.variables = EmptyMap]}

\* schemas.PromptExecutionRequest: an omitted field takes its declared
\* default, an explicit null stays None; the default of max_tokens is
\* None, so a request without max_tokens and one with null are the same
PromptExecutionRequest(raw) ==
    [variables    |-> raw.variables,
     llm_provider |-> IF raw.llm_provider = Omitted THEN "openai"
                      ELSE raw.llm_provider,
     llm_model    |-> IF raw.llm_model = Omitted THEN "gpt-4"
                      ELSE raw.llm_model,
     max_tokens   |-> raw.max_tokens]

\* the default each provider's execute declares for its max_tokens
\* parameter: None for OpenAI and Gemini, 1024 for Claude
DefaultMaxTokens(provider) ==
    CASE provider = "openai" -> NoneTok
      [] provider = "gemini" -> NoneTok
      [] provider = "claude" -> 1024

\* the cap the provider's execute sends to the vendor when it is called
\* with the keyword max_tokens=max_tokens: a keyword that is passed
\* replaces the declared default, None included
ExecuteMaxTokens(provider, max_tokens) == max_tokens

\* Python's `x or d` on an Optional[str]
Or(x, d) == IF x = None THEN d ELSE x

\* ------------------------------------------------- environment
\* the credentials present in os.environ of the server process
Environments ==
    {{"OPENAI_API_KEY", "GEMINI_API_KEY", "ANTHROPIC_API_KEY"},
     {"GEMINI_API_KEY", "ANTHROPIC_API_KEY"}}

\* what the awaited vendor call ends with: a completion with its token
\* count, a completion whose usage carries no count, or an exception
VendorResults ==
    {[raised |-> FALSE, output |-> "text1", tokens_used |-> 1200, message |-> None],
     [raised |-> FALSE, output |-> "text1", tokens_used |-> NoneTok, message |-> None],
     [raised |-> TRUE,  output |-> None,    tokens_used |-> NoneTok, message |-> "vendor_error"]}

NoResult ==
    [raised |-> FALSE, output |-> None, tokens_used |-> NoneTok, message |-> "pending"]

\* db.commit() (with the db.refresh() after it) of a row the code goes on
\* to use: it returns, it raises with nothing stored, or the row is stored
\* and the call still raises (db.refresh raising, or the acknowledgement of
\* the commit lost)
CommitOutcomes == {"ok", "failed", "applied_raised"}

\* db.commit() of the error record inside an except block: it takes
\* effect ("ok") or it raises with nothing stored.  A commit that takes
\* effect and still raises leaves the same rows as "ok".
HandlerCommitOutcomes == {"ok", "failed"}

\* ------------------------------------------------- state
VARIABLES
    environ,                  \* os.environ: names of the credentials set
    ledger,                   \* prompt_execution_history rows; id = index
    active_executions,        \* Gauge active_executions
    prompt_executions_total,  \* Counter, by <<prompt_id, llm_provider, status>>
    llm_tokens_used,          \* Counter, by <<llm_provider, model>>
    llm_cost_total,           \* Counter, by <<llm_provider, model>>
    calls,                    \* per execute_prompt call: position and locals
    history,                  \* back-end: prompt_execution_history rows by
                              \* execution_id (the committed database state)
    tasks,                    \* back-end: per request, the handler and its
                              \* background task
    validator_call,           \* one call of validate_variables_against_schema:
                              \* its arguments and what it returned or raised
    cost_call,                \* one call of a provider's calculate_cost: its
                              \* arguments and the cost it returned
    instance,                 \* one provider instance: its self.pricing and
                              \* the calls it has received, with their results
    read_call                 \* one call of get_execution_history or
                              \* get_execution and what it answered

syncVars ==
    <<environ, ledger, active_executions, prompt_executions_total,
      llm_tokens_used, llm_cost_total, calls>>

asyncVars == <<history, tasks>>

pureVars == <<validator_call, cost_call, instance, read_call>>

NoRequest ==
    [prompt_id |-> 0, variables |-> EmptyMap, llm_provider |-> None,
     llm_model |-> None, max_tokens |-> NoneTok]

NoResponse ==
    [code |-> 0, detail |-> None, errors |-> {}, execution_id |-> 0,
     output |-> None, llm_provider |-> None, llm_model |-> None,
     tokens_used |-> 0, cost |-> 0, status |-> None]

\* a call that has not been made yet
IdleCall ==
    [pc |-> "idle", raw |-> NoRequest, user_id |-> 0, validated_variables |-> EmptyMap,
     llm_provider_name |-> None, llm_model_name |-> None,
     max_tokens |-> NoneTok,
     result |-> NoResult, response |-> NoResponse,
     executes |-> 0, gauge_net |-> 0, written |-> {},
     store |-> None, commit |-> None]

\* Counter.labels(...).inc(n)
Inc(counter, labels, n) ==
    IF labels \in DOMAIN counter
    THEN [counter EXCEPT ![labels] = @ + n]
    ELSE counter @@ (labels :> n)

\* raise HTTPException(status_code, detail): what the caller receives
HTTPException(code, detail, errors) ==
    [NoResponse EXCEPT !.code = code, !.detail = detail, !.errors = errors]

\* an exception that leaves the handler uncaught: the server answers 500
Unhandled == HTTPException(500, "Internal Server Error", {})

\* ------------------------------------------------- back-end-v2 main.py
\* the try/except KeyError around str.format left out
ClassifyRenderUncaught(error) == "exception"

\* lines 312-318: a KeyError of str.format is turned into an HTTPException,
\* any other exception is left to the generic handler
ClassifyRender(error) == IF error = "KeyError" THEN "http" ELSE "exception"

\* lines 286-318: everything execute_prompt does before it calls the
\* provider.  outcome "dispatch" reaches the vendor call, "exception" is
\* an error the generic handler catches, "http" is an HTTPException.
Prepare(raw, env) ==
    LET request == PromptExecutionRequest(raw)
        none == [outcome |-> "http", response |-> NoResponse,
                 message |-> None, validated_variables |-> EmptyMap,
                 llm_provider_name |-> None, llm_model_name |-> None]
    IN
    IF raw.prompt_id \notin DOMAIN ExpertPrompts
    THEN [none EXCEPT !.response =
              HTTPException(404, "Expert prompt not found", {})]
    ELSE
    LET prompt == ExpertPrompts[raw.prompt_id]
        validation == validate_variables_against_schema(
                          request.variables, prompt.variables_schema)
    IN
    IF ~validation.ok
    THEN [none EXCEPT !.response =
              HTTPException(400, "Variable validation failed", validation.errors)]
    ELSE
    LET validated_variables == validation.value
        llm_provider_name == Or(request.llm_provider, "openai")
        llm_model_name == Or(request.llm_model, "gpt-4")
        llm_provider == get_provider(llm_provider_name, env)
        named == [none EXCEPT !.validated_variables = validated_variables,
                              !.llm_provider_name = llm_provider_name,
                              !.llm_model_name = llm_model_name]
    IN
    IF ~llm_provider.ok
    THEN [none EXCEPT !.response =
              HTTPException(400, llm_provider.error, llm_provider.listed)]
    ELSE
    LET filled_prompt == Format(prompt.template, validated_variables)
    IN
    IF ~filled_prompt.ok /\ ClassifyRender(filled_prompt.error) = "http"
    THEN [none EXCEPT !.response =
              HTTPException(400, "Missing variable in template", {})]
    ELSE IF ~filled_prompt.ok
    THEN [named EXCEPT !.outcome = "exception",
                       !.message = filled_prompt.error]
    ELSE [named EXCEPT !.outcome = "dispatch"]

\* the row built without the vendor's token count (column default 0)
SuccessRecordDefaultTokens(raw, call, cost) ==
    [prompt_id |-> raw.prompt_id, user_id |-> call.user_id,
     variables |-> call.validated_variables,
     output |-> call.result.output,
     llm_provider |-> call.llm_provider_name,
     llm_model |-> call.llm_model_name,
     tokens_used |-> 0, cost |-> cost,
     status |-> "success", error_message |-> None]

\* the row written as the asynchronous variant writes it, pending
SuccessRecordPending(raw, call, cost) ==
    [prompt_id |-> raw.prompt_id, user_id |-> call.user_id,
     variables |-> call.validated_variables,
     output |-> call.result.output,
     llm_provider |-> call.llm_provider_name,
     llm_model |-> call.llm_model_name,
     tokens_used |-> call.result.tokens_used, cost |-> cost,
     status |-> "pending", error_message |-> None]

\* lines 361-372: the row of a successful execution
SuccessRecord(raw, call, cost) ==
    [prompt_id |-> raw.prompt_id, user_id |-> call.user_id,
     variables |-> call.validated_variables,
     output |-> call.result.output,
     llm_provider |-> call.llm_provider_name,
     llm_model |-> call.llm_model_name,
     tokens_used |-> call.result.tokens_used, cost |-> cost,
     status |-> "success", error_message |-> None]

\* the error row built without error_message=str(e)
ErrorRecordNoMessage(raw, user_id, message) ==
    LET request == PromptExecutionRequest(raw)
    IN  [prompt_id |-> raw.prompt_id, user_id |-> user_id,
         variables |-> request.variables,
         output |-> None,
         llm_provider |-> Or(request.llm_provider, "unknown"),
         llm_model |-> Or(request.llm_model, "unknown"),
         tokens_used |-> 0, cost |-> 0,
         status |-> "error", error_message |-> None]

\* lines 401-413: the row of a failed execution
ErrorRecord(raw, user_id, message) ==
    LET request == PromptExecutionRequest(raw)
    IN  [prompt_id |-> raw.prompt_id, user_id |-> user_id,
         variables |-> request.variables,
         output |-> None,
         llm_provider |-> Or(request.llm_provider, "unknown"),
         llm_model |-> Or(request.llm_model, "unknown"),
         tokens_used |-> 0, cost |-> 0,
         status |-> "error", error_message |-> message]

\* lines 377-387: the body returned to the caller
SuccessResponse(id, record) ==
    [NoResponse EXCEPT !.code = 200, !.execution_id = id,
                       !.output = record.output,
                       !.llm_provider = record.llm_provider,
                       !.llm_model = record.llm_model,
                       !.tokens_used = record.tokens_used,
                       !.cost = record.cost, !.status = "success"]

\* the decrement placed after the handler instead of in a finally block:
\* skipped when the handler itself raises
FinallySkippedOnRaise(gauge, path) ==
    IF path = "handler_raised" THEN gauge ELSE gauge - 1

\* the decrement placed before the return statement only
FinallyOnReturnOnly(gauge, path) ==
    IF path = "return" THEN gauge - 1 ELSE gauge

\* line 420: finally: active_executions.dec(), on the exit path taken
Finally(gauge, path) == gauge - 1

\* lines 391-417: except Exception as e, entered with the ledger and the
\* counter as they are at that point; commit is the outcome of line 415
Handler(raw, user_id, message, led, total, commit) ==
    LET request == PromptExecutionRequest(raw)
        counted == Inc(total,
                       <<raw.prompt_id, Or(request.llm_provider, "unknown"),
                         "error">>, 1)
    IN  IF commit = "ok"
        THEN [ledger |-> Append(led, ErrorRecord(raw, user_id, message)),
              total |-> counted,
              response |-> HTTPException(500, "Execution failed", {message}),
              written |-> {Len(led) + 1},
              path |-> "handler"]
        ELSE [ledger |-> led, total |-> counted,
              response |-> Unhandled, written |-> {},
              path |-> "handler_raised"]

\* the call returned or raised: its locals are gone, the caller holds the
\* response
\* response; store and commit record how lines 374 and 415 ended (None
\* when the line was not reached)
Exit(call, response, gaugeBefore, gaugeAfter, written, store, commit) ==
    [call EXCEPT !.pc = "done", !.response = response,
                 !.gauge_net = @ + (gaugeAfter - gaugeBefore),
                 !.written = @ \cup written,
                 !.store = store, !.commit = commit]

\* lines 283-323: a request arrives and runs up to the awaited vendor call,
\* or leaves through an HTTPException or through the generic handler
Begin(c, raw) ==
    /\ calls[c].pc = "idle"
    /\ LET entered == active_executions + 1
           pre == Prepare(raw, environ)
           call == [calls[c] EXCEPT !.raw = raw, !.user_id = CurrentUser(c),
                                    !.gauge_net = 1]
       IN
       \/ /\ pre.outcome = "http"
          /\ active_executions' = Finally(entered, "http")
          /\ calls' = [calls EXCEPT ![c] =
                 Exit(call, pre.response, entered, active_executions', {},
                      None, None)]
          /\ UNCHANGED <<ledger, prompt_executions_total>>
       \/ /\ pre.outcome = "exception"
          /\ \E commit \in HandlerCommitOutcomes :
               LET h == Handler(raw, call.user_id, pre.message, ledger,
                                prompt_executions_total, commit)
               IN  /\ ledger' = h.ledger
                   /\ prompt_executions_total' = h.total
                   /\ active_executions' = Finally(entered, h.path)
                   /\ calls' = [calls EXCEPT ![c] =
                          Exit(call, h.response, entered,
                               active_executions', h.written, None, commit)]
       \/ /\ pre.outcome = "dispatch"
          /\ active_executions' = entered
          /\ calls' = [calls EXCEPT ![c] =
                 [call EXCEPT !.pc = "awaiting",
                              !.validated_variables = pre.validated_variables,
                              !.llm_provider_name = pre.llm_provider_name,
                              !.llm_model_name = pre.llm_model_name,
                              !.max_tokens =
                                  ExecuteMaxTokens(
                                      pre.llm_provider_name,
                                      PromptExecutionRequest(raw).max_tokens),
                              !.executes = @ + 1]]
          /\ UNCHANGED <<ledger, prompt_executions_total>>
    /\ UNCHANGED <<environ, llm_tokens_used, llm_cost_total, asyncVars, pureVars>>

\* the vendor's answer (or failure) to the awaited llm_provider.execute
VendorReturns(c, result) ==
    /\ calls[c].pc = "awaiting"
    /\ calls' = [calls EXCEPT ![c] =
           [@ EXCEPT !.pc = "answered", !.result = result]]
    /\ UNCHANGED <<environ, ledger, active_executions,
                   prompt_executions_total, llm_tokens_used, llm_cost_total,
                   asyncVars, pureVars>>

\* a failed vendor call re-issued once before the handler would run
ResumeFailureRetry(c, commit) ==
    /\ calls[c].pc = "answered"
    /\ calls[c].result.raised
    /\ calls[c].executes < 2
    /\ calls' = [calls EXCEPT ![c] =
           [@ EXCEPT !.pc = "awaiting", !.executes = @ + 1]]
    /\ UNCHANGED <<environ, ledger, active_executions,
                   prompt_executions_total, llm_tokens_used, llm_cost_total,
                   asyncVars, pureVars>>

\* lines 329-420, vendor raised or calculate_cost raises: the handler
ResumeFailure(c, commit) ==
    LET call == calls[c]
        message == IF call.result.raised THEN call.result.message
                   ELSE "TypeError"
        h == Handler(call.raw, call.user_id, message, ledger,
                     prompt_executions_total, commit)
    IN  /\ call.pc = "answered"
        /\ call.result.raised \/ CostRaises(call.result.tokens_used)
        /\ ledger' = h.ledger
        /\ prompt_executions_total' = h.total
        /\ active_executions' = Finally(active_executions, h.path)
        /\ calls' = [calls EXCEPT ![c] =
               Exit(call, h.response, active_executions,
                    active_executions', h.written, None, commit)]
        /\ UNCHANGED <<environ, llm_tokens_used, llm_cost_total, asyncVars, pureVars>>

\* lines 329-420, the vendor answered and the cost is computed: metrics,
\* then the success record; store is the outcome of lines 373-375 and
\* commit the outcome of line 415 when the handler is entered
ResumeSuccess(c, store, commit) ==
    LET call == calls[c]
        raw == call.raw
        tokens == call.result.tokens_used
        cost == calculate_cost(call.llm_provider_name, tokens,
                               call.llm_model_name)
        counted == Inc(prompt_executions_total,
                       <<raw.prompt_id, call.llm_provider_name, "success">>, 1)
        labels == <<call.llm_provider_name, call.llm_model_name>>
        execution_history == SuccessRecord(raw, call, cost)
        id == Len(ledger) + 1
        stored == IF store = "failed" THEN ledger
                  ELSE Append(ledger, execution_history)
        h == Handler(raw, call.user_id, "db_error", stored, counted, commit)
    IN  /\ call.pc = "answered"
        /\ ~call.result.raised /\ ~CostRaises(tokens)
        /\ llm_tokens_used' = Inc(llm_tokens_used, labels, tokens)
        /\ llm_cost_total' = Inc(llm_cost_total, labels, cost)
        /\ IF store = "ok"
           THEN /\ ledger' = stored
                /\ prompt_executions_total' = counted
                /\ active_executions' = Finally(active_executions, "return")
                /\ calls' = [calls EXCEPT ![c] =
                       Exit(call, SuccessResponse(id, execution_history),
                            active_executions, active_executions', {id},
                            store, None)]
           ELSE /\ ledger' = h.ledger
                /\ prompt_executions_total' = h.total
                /\ active_executions' = Finally(active_executions, h.path)
                /\ calls' = [calls EXCEPT ![c] =
                       Exit(call, h.response, active_executions,
                            active_executions',
                            h.written \cup
                              (IF store = "applied_raised" THEN {id} ELSE {}),
                            store, commit)]
        /\ UNCHANGED <<environ, asyncVars, pureVars>>

\* ------------------------------------------------- back-end main.py

\* schemas.PromptExecutionRequest of the asynchronous variant carries the
\* variables only (field data)
AsyncRequests ==
    [prompt_id : {1, 2, 9}, variables : {EmptyMap, ("name" :> "a")}]

NoAsyncRequest == [prompt_id |-> 0, variables |-> EmptyMap]

IdleTask ==
    [pc |-> "idle", raw |-> NoAsyncRequest, response |-> NoResponse,
     failure |-> None]

\* lines 319-323: the row committed before the task is scheduled
PendingRow(raw) ==
    [prompt_id |-> raw.prompt_id, input_variables |-> raw.variables,
     status |-> "PENDING", output_result |-> None, error_message |-> None,
     llm_response_metrics |-> None]

\* lines 130-133: the fields the background task sets on success
SuccessRow(row, llm_response) ==
    [row EXCEPT !.output_result = llm_response.output,
                !.status = llm_response.status,
                !.llm_response_metrics = llm_response.metrics,
                !.error_message = None]

\* lines 141-142: the fields the except block sets
FailedRow(row, message) ==
    [row EXCEPT !.status = "FAILED", !.error_message = message]

\* what call_llm returns from its OpenAI branch (lines 68-77)
LLMResponse == [output |-> "text1", status |-> "SUCCESS", metrics |-> "metrics"]

\* the failures process_prompt_in_background can meet between its first
\* query and the vendor's answer: no active model (line 125), credential
\* not set (line 50), the vendor call raising (line 79)
TaskFailures == {"no_active_model", "api_key_not_set", "vendor_error"}

\* lines 303-331: execute_prompt of the asynchronous variant
AsyncExecute(c, raw, store) ==
    LET task == [tasks[c] EXCEPT !.raw = raw]
        found == raw.prompt_id \in DOMAIN ExpertPrompts
        schema == ExpertPrompts[raw.prompt_id].variables_schema
        errors == IF schema.empty THEN {}
                  ELSE ErrorMessages(IterErrors(raw.variables, schema))
    IN  /\ tasks[c].pc = "idle"
        /\ IF ~found
           THEN /\ tasks' = [tasks EXCEPT ![c] =
                       [task EXCEPT !.pc = "rejected", !.response =
                           HTTPException(404, "Prompt expert non trouve", {})]]
                /\ UNCHANGED history
           ELSE IF errors # {}
           THEN \* jsonschema.validate raises the best match, one error
                /\ \E e \in errors :
                     tasks' = [tasks EXCEPT ![c] =
                       [task EXCEPT !.pc = "rejected", !.response =
                           HTTPException(400, "Erreur de validation", {e})]]
                /\ UNCHANGED history
           ELSE /\ history' = IF store = "failed" THEN history
                              ELSE history @@ (c :> PendingRow(raw))
                /\ tasks' = [tasks EXCEPT ![c] =
                       IF store = "ok"
                       THEN [task EXCEPT !.pc = "scheduled", !.response =
                               [NoResponse EXCEPT !.code = 200,
                                                  !.execution_id = c]]
                       ELSE [task EXCEPT !.pc = "rejected",
                                         !.response = Unhandled]]
        /\ UNCHANGED <<syncVars, pureVars>>

\* lines 103-105 and 138-140: the first query raises, execution_entry was
\* never bound, and `if execution_entry` in the except block raises
\* UnboundLocalError: the task ends by an exception
TaskQueryRaises(c) ==
    /\ tasks[c].pc = "scheduled"
    /\ tasks' = [tasks EXCEPT ![c] =
           [@ EXCEPT !.pc = "crashed", !.failure = "query_failed"]]
    /\ UNCHANGED <<syncVars, history, pureVars>>

\* lines 103-128 raising after execution_entry is bound: control moves to
\* the except block
TaskFails(c, message) ==
    LET raw == tasks[c].raw
        rendered == Format(ExpertPrompts[raw.prompt_id].template, raw.variables)
    IN  /\ tasks[c].pc = "scheduled"
        /\ c \in DOMAIN history
        /\ \/ message \in TaskFailures
           \/ ~rendered.ok /\ message = rendered.error
        /\ tasks' = [tasks EXCEPT ![c] =
               [@ EXCEPT !.pc = "handling", !.failure = message]]
        /\ UNCHANGED <<syncVars, history, pureVars>>

\* lines 103-136: the vendor answered; the row is set to the response and
\* committed (line 134).  store is the outcome of that commit.
TaskSucceeds(c, store) ==
    LET raw == tasks[c].raw
        rendered == Format(ExpertPrompts[raw.prompt_id].template, raw.variables)
    IN  /\ tasks[c].pc = "scheduled"
        /\ c \in DOMAIN history
        /\ rendered.ok
        /\ history' = IF store = "failed" THEN history
                      ELSE [history EXCEPT ![c] = SuccessRow(@, LLMResponse)]
        /\ tasks' = [tasks EXCEPT ![c] =
               IF store = "ok" THEN [@ EXCEPT !.pc = "finished"]
               ELSE [@ EXCEPT !.pc = "handling", !.failure = "db_error"]]
        /\ UNCHANGED <<syncVars, pureVars>>

\* lines 138-143: the except block with execution_entry bound; commit is
\* the outcome of line 143
TaskHandles(c, commit) ==
    /\ tasks[c].pc = "handling"
    /\ history' = IF commit = "ok"
                  THEN [history EXCEPT ![c] = FailedRow(@, tasks[c].failure)]
                  ELSE history
    /\ tasks' = [tasks EXCEPT ![c] =
           [@ EXCEPT !.pc = IF commit = "ok" THEN "finished" ELSE "crashed"]]
    /\ UNCHANGED <<syncVars, pureVars>>

\* ------------------------------------------------- validators.py, called
\* with the variable maps and the schemas a prompt author can store

\* the maps a caller can send: any of the names, each with any value
VariableMaps == UNION {[S -> Vals] : S \in SUBSET VarNames}

\* variables_schema documents: none, or an object schema declaring "name",
\* "tone" and "root" or not, "tone" with or without a default, and
\* requiring any of "name" and "tone"
NameProperties ==
    {EmptyMap, "name" :> Prop("string"), "name" :> Prop("integer")}

ToneProperties ==
    {EmptyMap, "tone" :> PropDefault("string", "formal"),
     "tone" :> Prop("string")}

RootProperties == {EmptyMap, "root" :> Prop("string")}

Schemas ==
    {NoSchema} \cup
    {[properties |-> n @@ t @@ o, required |-> r, empty |-> FALSE] :
         n \in NameProperties, t \in ToneProperties, o \in RootProperties,
         r \in SUBSET {"name", "tone"}}

NoValidatorCall ==
    [pc |-> "idle", variables |-> EmptyMap, schema |-> NoSchema,
     value |-> EmptyMap, errors |-> {}]

\* validate_variables_against_schema(variables, schema) runs: it returns
\* the map or raises the ValueError with its messages
Validate ==
    /\ validator_call.pc = "called"
    /\ LET r == validate_variables_against_schema(validator_call.variables,
                                                  validator_call.schema)
       IN  validator_call' =
               [validator_call EXCEPT
                    !.pc = IF r.ok THEN "returned" ELSE "raised",
                    !.value = r.value, !.errors = r.errors]
    /\ UNCHANGED <<syncVars, asyncVars, cost_call, instance, read_call>>

\* ------------------------------------------------- calculate_cost, called
\* with the token counts a vendor can report

\* every small count, and the 1000 tokens the prices are quoted for
TokenCounts == 0..MaxTokens \cup {1000}

\* the model names a provider's calculate_cost is called with: the ones of
\* its table, the request's default "gpt-4", and a name no table lists
CostModels(provider) == DOMAIN Pricing(provider) \cup {"gpt-4", "gpt-4o"}

NoCostCall ==
    [pc |-> "idle", provider |-> None, model |-> None, tokens |-> 0,
     cost |-> 0]

\* provider.calculate_cost(tokens, model) runs: it returns the cost, or
\* raises the TypeError of None * 0.75
CalculateCost ==
    /\ cost_call.pc = "called"
    /\ cost_call' =
           IF CostRaises(cost_call.tokens)
           THEN [cost_call EXCEPT !.pc = "raised"]
           ELSE [cost_call EXCEPT
                     !.pc = "returned",
                     !.cost = calculate_cost(cost_call.provider,
                                             cost_call.tokens,
                                             cost_call.model)]
    /\ UNCHANGED <<syncVars, asyncVars, validator_call, instance, read_call>>

\* ------------------------------------------------- a provider instance
\* receiving several calls

\* self.pricing as calculate_cost would leave it if it kept the price it
\* charged for an unlisted model, filed under that name at no charge
PricingAfterCostRemembers(pricing, model) ==
    IF model \notin DOMAIN pricing
    THEN pricing @@ (model :> [input |-> 0, output |-> 0])
    ELSE pricing

\* self.pricing after calculate_cost(tokens, model): the method assigns
\* its local name `model` only (lines 88-90) and reads the table
PricingAfterCost(pricing, model) == pricing

\* the token counts an instance is asked to price
InstanceTokenCounts == {7, 1000}

NoInstance == [name |-> None, pricing |-> EmptyMap, log |-> << >>]

\* instance.calculate_cost(tokens, model)
InstanceCalculateCost(tokens, model) ==
    /\ instance.name # None
    /\ Len(instance.log) < MaxInstanceCalls
    /\ instance' =
           [instance EXCEPT
                !.pricing = PricingAfterCost(@, model),
                !.log = Append(@, [op |-> "calculate_cost",
                                   tokens |-> tokens, model |-> model,
                                   cost |-> ProviderCost(instance.name,
                                                         instance.pricing,
                                                         tokens, model)])]
    /\ UNCHANGED <<syncVars, asyncVars, validator_call, cost_call, read_call>>

\* await instance.execute(prompt, model, ...): the vendor answers or
\* raises; the method reads self.client only
InstanceExecute(model, result) ==
    /\ instance.name # None
    /\ Len(instance.log) < MaxInstanceCalls
    /\ instance' =
           [instance EXCEPT
                !.log = Append(@, [op |-> "execute",
                                   tokens |-> result.tokens_used,
                                   model |-> model, cost |-> 0])]
    /\ UNCHANGED <<syncVars, asyncVars, validator_call, cost_call, read_call>>

\* ------------------------------------------------- ledger reads
NoReadCall ==
    [pc |-> "idle", op |-> None, user_id |-> 0, execution_id |-> 0,
     prompt_id |-> 0, status |-> None, skip |-> 0, limit |-> 0,
     code |-> 0, detail |-> None, rows |-> << >>]

\* the rows a ledger can hold as far as the reads look at them: owner,
\* prompt and status vary, the other columns are those of one execution
ReadRows ==
    { [prompt_id |-> prompt_id, user_id |-> user_id,
       variables |-> ("name" :> "a"), output |-> None,
       llm_provider |-> "openai", llm_model |-> "gpt-4",
       tokens_used |-> 0, cost |-> 0,
       status |-> status, error_message |-> None] :
          prompt_id \in {1, 2}, user_id \in Users,
          status \in {"success", "error"} }

\* the ledgers of at most MaxRows rows; the id of a row is its index, and
\* created_at (datetime.utcnow at insert) grows with the id
ReadLedgers == UNION { [1..n -> ReadRows] : n \in 0..MaxRows }

\* the query parameters: prompt_id None (NoneTok) or 0 and status None or
\* "" are falsy, the declared defaults are skip=0, limit=100
ReadPromptIds == {NoneTok, 0, 1, 2}
ReadStatuses == {None, "", "success", "error"}
ReadSkips == {0, 1}
ReadLimits == {1, 100}

\* order_by(created_at.desc()): the ids of a set, newest first
RECURSIVE NewestFirst(_)
NewestFirst(ids) ==
    IF ids = {} THEN << >>
    ELSE LET newest == CHOOSE i \in ids : \A j \in ids : j <= i
         IN  <<newest>> \o NewestFirst(ids \ {newest})

\* .offset(skip).limit(limit)
OffsetLimit(q, skip, limit) ==
    SubSeq(q, skip + 1, IF skip + limit < Len(q) THEN skip + limit
                        ELSE Len(q))

\* lines 433-443: the rows of the caller, narrowed by the truthy filters,
\* newest first, one page of them
get_execution_history(led, user_id, skip, limit, prompt_id, status) ==
    LET matching ==
            { i \in DOMAIN led :
                /\ led[i].user_id = user_id
                /\ (prompt_id \notin {NoneTok, 0}
                      => led[i].prompt_id = prompt_id)
                /\ (status \notin {None, ""} => led[i].status = status) }
        page == OffsetLimit(NewestFirst(matching), skip, limit)
    IN  [i \in DOMAIN page |-> [id |-> page[i], row |-> led[page[i]]]]

\* get_execution with the filter on the owner left out
get_execution_any_owner(led, execution_id, user_id) ==
    IF execution_id \in DOMAIN led
    THEN [code |-> 200, detail |-> None,
          rows |-> <<[id |-> execution_id, row |-> led[execution_id]]>>]
    ELSE [code |-> 404, detail |-> "Execution not found", rows |-> << >>]

\* lines 452-460: the row with this id and this owner, or 404
get_execution(led, execution_id, user_id) ==
    IF execution_id \in DOMAIN led /\ led[execution_id].user_id = user_id
    THEN [code |-> 200, detail |-> None,
          rows |-> <<[id |-> execution_id, row |-> led[execution_id]]>>]
    ELSE [code |-> 404, detail |-> "Execution not found", rows |-> << >>]

\* GET /api/v1/executions/history
GetExecutionHistory(user_id, skip, limit, prompt_id, status) ==
    /\ read_call.pc = "idle"
    /\ read_call' =
           [read_call EXCEPT
                !.pc = "returned", !.op = "get_execution_history",
                !.user_id = user_id, !.skip = skip, !.limit = limit,
                !.prompt_id = prompt_id, !.status = status,
                !.code = 200,
                !.rows = get_execution_history(ledger, user_id, skip, limit,
                                               prompt_id, status)]
    /\ UNCHANGED <<syncVars, asyncVars, validator_call, cost_call, instance>>

\* GET /api/v1/executions/{execution_id}
GetExecution(user_id, execution_id) ==
    LET answer == get_execution(ledger, execution_id, user_id)
    IN  /\ read_call.pc = "idle"
        /\ read_call' =
               [read_call EXCEPT
                    !.pc = "returned", !.op = "get_execution",
                    !.user_id = user_id, !.execution_id = execution_id,
                    !.code = answer.code, !.detail = answer.detail,
                    !.rows = answer.rows]
        /\ UNCHANGED <<syncVars, asyncVars, validator_call, cost_call,
                       instance>>

Init ==
    /\ environ \in Environments
    /\ ledger = << >>
    /\ active_executions = 0
    /\ prompt_executions_total = << >>
    /\ llm_tokens_used = << >>
    /\ llm_cost_total = << >>
    /\ calls = [c \in Calls |-> IdleCall]
    /\ history = << >>
    /\ tasks = [c \in Calls |-> IdleTask]
    /\ validator_call = NoValidatorCall
    /\ cost_call = NoCostCall
    /\ instance = NoInstance
    /\ read_call = NoReadCall

Next ==
    \/ \E c \in Calls, raw \in Requests : Begin(c, raw)
    \/ \E c \in Calls, result \in VendorResults : VendorReturns(c, result)
    \/ \E c \in Calls, commit \in HandlerCommitOutcomes :
           ResumeFailure(c, commit)
    \/ \E c \in Calls, store \in CommitOutcomes,
          commit \in HandlerCommitOutcomes : ResumeSuccess(c, store, commit)

vars == <<syncVars, asyncVars, pureVars>>

\* the synchronous service (back-end-v2)
Spec == Init /\ [][Next]_vars

NextAsync ==
    \/ \E c \in Calls, raw \in AsyncRequests, store \in CommitOutcomes :
           AsyncExecute(c, raw, store)
    \/ \E c \in Calls : TaskQueryRaises(c)
    \/ \E c \in Calls, message \in TaskFailures \cup {"KeyError", "IndexError"} :
           TaskFails(c, message)
    \/ \E c \in Calls, store \in CommitOutcomes : TaskSucceeds(c, store)
    \/ \E c \in Calls, commit \in HandlerCommitOutcomes : TaskHandles(c, commit)

\* the coroutine of a call is resumed by the event loop once the awaited
\* vendor call has completed
Resume(c) ==
    \/ \E commit \in HandlerCommitOutcomes : ResumeFailure(c, commit)
    \/ \E store \in CommitOutcomes, commit \in HandlerCommitOutcomes :
           ResumeSuccess(c, store, commit)

\* the synchronous service with its scheduling: a completed await is
\* always resumed; nothing obliges the vendor to answer or a caller to call
FairSpec == Spec /\ \A c \in Calls : WF_vars(Resume(c))

\* the asynchronous service (back-end); it reads no credential at start
InitAsync ==
    /\ Init
    /\ environ = {"OPENAI_API_KEY", "GEMINI_API_KEY", "ANTHROPIC_API_KEY"}

SpecAsync == InitAsync /\ [][NextAsync]_vars

\* validate_variables_against_schema on its own, for every map and schema
InitValidate ==
    /\ environ = {"OPENAI_API_KEY", "GEMINI_API_KEY", "ANTHROPIC_API_KEY"}
    /\ ledger = << >>
    /\ active_executions = 0
    /\ prompt_executions_total = << >>
    /\ llm_tokens_used = << >>
    /\ llm_cost_total = << >>
    /\ calls = [c \in Calls |-> IdleCall]
    /\ history = << >>
    /\ tasks = [c \in Calls |-> IdleTask]
    /\ \E v \in VariableMaps, s \in Schemas :
           validator_call = [NoValidatorCall EXCEPT !.pc = "called",
                                                    !.variables = v,
                                                    !.schema = s]
    /\ cost_call = NoCostCall
    /\ instance = NoInstance
    /\ read_call = NoReadCall

NextValidate == Validate

SpecValidate == InitValidate /\ [][NextValidate]_vars

\* calculate_cost on its own, for every provider, model name and count,
\* and for the missing count of a vendor answer without usage
InitCost ==
    /\ environ = {"OPENAI_API_KEY", "GEMINI_API_KEY", "ANTHROPIC_API_KEY"}
    /\ ledger = << >>
    /\ active_executions = 0
    /\ prompt_executions_total = << >>
    /\ llm_tokens_used = << >>
    /\ llm_cost_total = << >>
    /\ calls = [c \in Calls |-> IdleCall]
    /\ history = << >>
    /\ tasks = [c \in Calls |-> IdleTask]
    /\ validator_call = NoValidatorCall
    /\ \E provider \in ProviderNames :
         \E model \in CostModels(provider),
            tokens \in TokenCounts \cup {NoneTok} :
           cost_call = [NoCostCall EXCEPT !.pc = "called",
                                          !.provider = provider,
                                          !.model = model,
                                          !.tokens = tokens]
    /\ instance = NoInstance
    /\ read_call = NoReadCall

NextCost == CalculateCost

SpecCost == InitCost /\ [][NextCost]_vars

\* one provider instance, as LLMFactory.get_provider builds it, receiving
\* calculate_cost and execute calls in any order
InitProvider ==
    /\ environ = {"OPENAI_API_KEY", "GEMINI_API_KEY", "ANTHROPIC_API_KEY"}
    /\ ledger = << >>
    /\ active_executions = 0
    /\ prompt_executions_total = << >>
    /\ llm_tokens_used = << >>
    /\ llm_cost_total = << >>
    /\ calls = [c \in Calls |-> IdleCall]
    /\ history = << >>
    /\ tasks = [c \in Calls |-> IdleTask]
    /\ validator_call = NoValidatorCall
    /\ cost_call = NoCostCall
    /\ \E name \in ProviderNames :
           instance = [NoInstance EXCEPT !.name = name,
                                         !.pricing = Pricing(name)]
    /\ read_call = NoReadCall

NextProvider ==
    \/ \E tokens \in InstanceTokenCounts :
         \E model \in CostModels(instance.name) :
           InstanceCalculateCost(tokens, model)
    \/ \E result \in VendorResults : InstanceExecute("gpt-4", result)

SpecProvider == InitProvider /\ [][NextProvider]_vars

\* one read of a ledger that holds rows of several users
InitRead ==
    /\ environ = {"OPENAI_API_KEY", "GEMINI_API_KEY", "ANTHROPIC_API_KEY"}
    /\ ledger \in ReadLedgers
    /\ active_executions = 0
    /\ prompt_executions_total = << >>
    /\ llm_tokens_used = << >>
    /\ llm_cost_total = << >>
    /\ calls = [c \in Calls |-> IdleCall]
    /\ history = << >>
    /\ tasks = [c \in Calls |-> IdleTask]
    /\ validator_call = NoValidatorCall
    /\ cost_call = NoCostCall
    /\ instance = NoInstance
    /\ read_call = NoReadCall

NextRead ==
    \/ \E user_id \in Users, skip \in ReadSkips, limit \in ReadLimits,
          prompt_id \in ReadPromptIds, status \in ReadStatuses :
           GetExecutionHistory(user_id, skip, limit, prompt_id, status)
    \/ \E user_id \in Users, execution_id \in 1..(MaxRows + 1) :
           GetExecution(user_id, execution_id)

SpecRead == InitRead /\ [][NextRead]_vars

\* ------------------------------------------------- properties
InFlight(c) == calls[c].pc \in {"awaiting", "answered"}
Done(c) == calls[c].pc = "done"

\* the exception the generic handler receives from the vendor call or
\* from calculate_cost
ProviderFailed(c) ==
    /\ calls[c].executes > 0
    /\ calls[c].result # NoResult
    /\ calls[c].result.raised \/ CostRaises(calls[c].result.tokens_used)

FailureMessage(c) ==
    IF calls[c].result.raised THEN calls[c].result.message ELSE "TypeError"

\* C1: whatever exit path a call of the synchronous execute_prompt takes,
\* the call leaves active_executions as it found it: the net change a
\* finished call made to the gauge is 0, and the gauge is 0 when no call is
\* in progress.
C1_GaugeRestored ==
    /\ \A c \in Calls : Done(c) => calls[c].gauge_net = 0
    /\ (\A c \in Calls : ~InFlight(c)) => active_executions = 0

\* a call whose error handler itself raised has finished, next to a call
\* that left through an HTTPException 400
C1_Witness ==
    \E c, d \in Calls :
        /\ Done(c) /\ calls[c].commit = "failed" /\ calls[c].response = Unhandled
        /\ Done(d) /\ calls[d].response.code = 400

\* C2: when execute and calculate_cost succeed and the record write
\* succeeds, the call adds exactly one record, with status success, the
\* vendor's output and token count and the cost calculate_cost gives for
\* that count and the dispatched model; the response carries that record's
\* id and the same output, tokens and cost.
C2_SuccessRecorded ==
    \A c \in Calls :
        (Done(c) /\ calls[c].executes > 0 /\ ~ProviderFailed(c)
                 /\ calls[c].store = "ok")
        => /\ Cardinality(calls[c].written) = 1
           /\ calls[c].response.code = 200
           /\ calls[c].response.execution_id \in calls[c].written
           /\ LET row == ledger[calls[c].response.execution_id]
                  cost == calculate_cost(calls[c].llm_provider_name,
                                         calls[c].result.tokens_used,
                                         calls[c].llm_model_name)
              IN  /\ row.status = "success"
                  /\ row.output = calls[c].result.output
                  /\ row.tokens_used = calls[c].result.tokens_used
                  /\ row.cost = cost
                  /\ calls[c].response.output = row.output
                  /\ calls[c].response.tokens_used = row.tokens_used
                  /\ calls[c].response.cost = row.cost

\* a successful execution on gemini: 1200 tokens at gemini-pro prices
C2_Witness ==
    \E c \in Calls :
        /\ Done(c) /\ calls[c].response.code = 200
        /\ calls[c].llm_provider_name = "gemini"
        /\ ledger[calls[c].response.execution_id].cost = 375
        /\ ledger[calls[c].response.execution_id].tokens_used = 1200

\* C3 as stated: when execute or calculate_cost raises, the call writes
\* exactly one record (status error, the exception's message, null output,
\* tokens 0, cost 0) and fails with HTTP 500.
C3_ErrorAlwaysRecorded ==
    \A c \in Calls :
        (Done(c) /\ ProviderFailed(c))
        => /\ calls[c].response.code = 500
           /\ Cardinality(calls[c].written) = 1
           /\ \A id \in calls[c].written :
                /\ ledger[id].status = "error"
                /\ ledger[id].error_message = FailureMessage(c)
                /\ ledger[id].output = None
                /\ ledger[id].tokens_used = 0
                /\ ledger[id].cost = 0

\* C3 amended: when execute or calculate_cost raises, the call fails with
\* HTTP 500 and never answers success; if the commit of the error record
\* takes effect it has written exactly one record (status error, the
\* exception's message, null output, tokens 0, cost 0), and if that commit
\* does not take effect it has written none.
C3_ErrorRecorded ==
    \A c \in Calls :
        (Done(c) /\ ProviderFailed(c))
        => /\ calls[c].response.code = 500
           /\ calls[c].response.status # "success"
           /\ calls[c].commit = "ok" =>
                /\ Cardinality(calls[c].written) = 1
                /\ \A id \in calls[c].written :
                     /\ ledger[id].status = "error"
                     /\ ledger[id].error_message = FailureMessage(c)
                     /\ ledger[id].output = None
                     /\ ledger[id].tokens_used = 0
                     /\ ledger[id].cost = 0
           /\ calls[c].commit # "ok" => calls[c].written = {}

\* the vendor raised and the error record is in the ledger
C3_Witness ==
    \E c \in Calls :
        /\ Done(c) /\ calls[c].result.raised /\ calls[c].commit = "ok"
        /\ \E id \in calls[c].written : ledger[id].error_message = "vendor_error"

\* the request is one that fails at prompt lookup, at variable
\* validation, at provider resolution (unknown name or credential not
\* set) or at rendering with a variable the template needs missing
FailsBeforeDispatch(raw, env) ==
    \/ raw.prompt_id \notin DOMAIN ExpertPrompts
    \/ LET request == PromptExecutionRequest(raw)
           prompt == ExpertPrompts[raw.prompt_id]
           validation == validate_variables_against_schema(
                             request.variables, prompt.variables_schema)
       IN  \/ ~validation.ok
           \/ ~get_provider(Or(request.llm_provider, "openai"), env).ok
           \/ Format(prompt.template, validation.value).error = "KeyError"

\* C4: a call that fails at prompt lookup, at variable validation, at
\* provider resolution or at a missing template variable ends with a 404
\* or 400, leaves the ledger as it was and never invokes the provider's
\* execute.
C4_EarlyFailureWritesNothing ==
    [][\A c \in Calls :
          (calls[c].pc = "idle" /\ calls'[c].pc # "idle"
             /\ FailsBeforeDispatch(calls'[c].raw, environ))
          => /\ ledger' = ledger
             /\ calls'[c].pc = "done"
             /\ calls'[c].response.code \in {400, 404}
             /\ calls'[c].executes = 0
             /\ calls'[c].written = {}]_vars

\* a call rejected for a missing template variable, after another call
\* has written a record
C4_Witness ==
    \E c \in Calls :
        /\ Done(c) /\ calls[c].response.code = 400
        /\ calls[c].response.detail = "Missing variable in template"
        /\ Len(ledger) > 0

\* C5: once a record has a terminal status no later step changes it, so a
\* later write of a different terminal status is not applied: a row of the
\* synchronous ledger is never rewritten, and a row of the asynchronous
\* history that is SUCCESS or FAILED keeps its status and its other fields.
C5_TerminalImmutable ==
    [][/\ \A id \in 1..Len(ledger) :
             Len(ledger') >= id /\ ledger'[id] = ledger[id]
       /\ \A id \in DOMAIN history :
             history[id].status \in {"SUCCESS", "FAILED"}
             => id \in DOMAIN history' /\ history'[id] = history[id]]_vars

\* C6: in the asynchronous variant a task is scheduled only after its
\* PENDING row is committed, and once process_prompt_in_background has run
\* (to its end or into an exception) the row is SUCCESS or FAILED.
C6_PendingResolved ==
    \A c \in Calls :
        /\ tasks[c].pc \in {"scheduled", "handling", "finished", "crashed"}
           => c \in DOMAIN history
        /\ tasks[c].pc \in {"finished", "crashed"}
           => history[c].status \in {"SUCCESS", "FAILED"}

\* C7: in the synchronous variant every row of the ledger is success or
\* error, never pending; every row was written by a call that has
\* returned, so a call in flight has no row.
C7_NoIntermediateState ==
    /\ \A id \in 1..Len(ledger) : ledger[id].status \in {"success", "error"}
    /\ \A c \in Calls : InFlight(c) => calls[c].written = {}
    /\ UNION {calls[c].written : c \in Calls} = 1..Len(ledger)

\* one call has written its record while another is waiting for the vendor
C7_Witness ==
    \E c, d \in Calls :
        /\ Done(c) /\ calls[c].response.code = 200
        /\ InFlight(d)
        /\ Len(ledger) = 1

\* C8: every failure of an attempt is returned to the caller as an error
\* or persisted in the attempt's record with an error status and message:
\* a finished synchronous call that failed answered with an error code; a
\* rejected asynchronous request answered with an error code; a background
\* task that met a failure left its row FAILED with that failure's message.
C8_NoSilentFailure ==
    /\ \A c \in Calls :
          (Done(c) /\ calls[c].response.status # "success")
          => calls[c].response.code >= 400
    /\ \A c \in Calls :
          tasks[c].pc = "rejected" => tasks[c].response.code >= 400
    /\ \A c \in Calls :
          (tasks[c].pc \in {"finished", "crashed"} /\ tasks[c].failure # None)
          => /\ history[c].status = "FAILED"
             /\ history[c].error_message = tasks[c].failure

\* C9: every call that waits for the vendor eventually returns or raises.
C9_CallTerminates ==
    \A c \in Calls : (calls[c].pc = "awaiting") ~> (calls[c].pc = "done")

\* C10: within one call the provider's execute is invoked at most once,
\* also when it raises, and the records of different calls have different
\* execution ids.
C10_NoRetry ==
    /\ \A c \in Calls : calls[c].executes <= 1
    /\ \A c \in Calls : (calls[c].pc # "idle" /\ calls[c].result.raised)
                            => calls[c].executes = 1
    /\ \A c, d \in Calls : c # d => calls[c].written \cap calls[d].written = {}

\* the caller repeats a request whose vendor call failed: two records with
\* two ids, one vendor call each
C10_Witness ==
    \E c, d \in Calls :
        /\ c # d /\ Done(c) /\ Done(d)
        /\ calls[c].result.raised /\ calls[c].commit = "ok"
        /\ calls[d].raw = calls[c].raw /\ calls[d].executes = 1
        /\ calls[c].written # {} /\ calls[d].written # {}
        /\ calls[c].executes = 1

\* the commits of a call that took effect: the success record's (line
\* 374) and the error record's (line 415)
CommitsApplied(c) ==
    (IF calls[c].store \in {"ok", "applied_raised"} THEN 1 ELSE 0)
    + (IF calls[c].commit = "ok" THEN 1 ELSE 0)

ValidatedAgainstSchema ==
    validator_call.pc = "returned" /\ ~validator_call.schema.empty

\* C12: when validate_variables_against_schema succeeds with a non-empty
\* schema, the result holds every key of the input with its value
\* unchanged, every property of schema.properties that is absent from the
\* input and declares a default, set to that default, and no other key.
C12_DefaultsInjected ==
    ValidatedAgainstSchema =>
        LET given == validator_call.variables
            props == validator_call.schema.properties
            value == validator_call.value
        IN  /\ \A k \in DOMAIN given :
                   k \in DOMAIN value /\ value[k] = given[k]
            /\ \A p \in DOMAIN props :
                   (p \notin DOMAIN given /\ props[p].has_default)
                   => p \in DOMAIN value /\ value[p] = props[p].default
            /\ \A k \in DOMAIN value :
                   \/ k \in DOMAIN given
                   \/ k \in DOMAIN props /\ props[k].has_default

\* a supplied tone and an undeclared topic kept as sent, under a schema
\* that declares a default for "tone"
C12_Witness ==
    /\ ValidatedAgainstSchema
    /\ "tone" \in DOMAIN validator_call.schema.properties
    /\ validator_call.schema.properties["tone"].has_default
    /\ validator_call.variables = ("tone" :> "b") @@ ("topic" :> "#7")
    /\ validator_call.value = validator_call.variables

\* the call of the validator has ended, by a return or by the ValueError
Validated == validator_call.pc \in {"returned", "raised"}

\* the required properties the input omits, and the supplied properties
\* whose value is not of the declared type
MissingRequired ==
    {p \in validator_call.schema.required :
         p \notin DOMAIN validator_call.variables}

Mistyped ==
    {p \in DOMAIN validator_call.variables
             \cap DOMAIN validator_call.schema.properties :
         TypeOf(validator_call.variables[p])
             # validator_call.schema.properties[p].type}

\* C13: for all maps v and schemas s, if validate_variables_against_schema
\* succeeds, every property listed in s.required is present in the
\* returned map.
C13_RequiredPresent ==
    validator_call.pc = "returned" =>
        \A p \in validator_call.schema.required :
            p \in DOMAIN validator_call.value

\* both required properties supplied, "tone" next to its declared default
C13_Witness ==
    /\ validator_call.pc = "returned"
    /\ validator_call.schema.required = {"name", "tone"}
    /\ "tone" \in DOMAIN validator_call.schema.properties
    /\ validator_call.schema.properties["tone"].has_default
    /\ validator_call.value = ("name" :> "a") @@ ("tone" :> "b")

\* C14: a property listed in required that declares a default and that the
\* caller omits does not make validation fail, and appears in the result
\* with its default; the only omissions that fail are those of required
\* properties without a default.
C14_DefaultSatisfiesRequired ==
    (Validated /\ ~validator_call.schema.empty) =>
        LET props == validator_call.schema.properties
            defaulted == {p \in MissingRequired :
                              p \in DOMAIN props /\ props[p].has_default}
        IN  /\ \A e \in validator_call.errors :
                   e.keyword = "required" => e.subject \notin defaulted
            /\ (MissingRequired \subseteq defaulted /\ Mistyped = {})
               => /\ validator_call.pc = "returned"
                  /\ \A p \in defaulted :
                         /\ p \in DOMAIN validator_call.value
                         /\ validator_call.value[p] = props[p].default

\* C15 as stated: when the variables violate the schema the call raises
\* one error listing every violation as a path and message pair, the path
\* being "root" exactly for the violations of the document as a whole
\* (here: a missing required property), and no map is returned.
C15_RootOnlyForDocument ==
    (Validated /\ ~validator_call.schema.empty) =>
        /\ (validator_call.pc = "raised") <=> (MissingRequired \cup Mistyped # {})
        /\ validator_call.pc = "raised" =>
             /\ validator_call.value = EmptyMap
             /\ \A p \in MissingRequired : \E e \in validator_call.errors :
                    e.keyword = "required" /\ e.subject = p /\ e.path = "root"
             /\ \A p \in Mistyped : \E e \in validator_call.errors :
                    e.keyword = "type" /\ e.path = p
             /\ Cardinality(validator_call.errors)
                    = Cardinality(MissingRequired) + Cardinality(Mistyped)
             /\ \A e \in validator_call.errors :
                    e.path = "root" <=> e.keyword = "required"

\* C15 amended: when the variables violate the schema the call raises one
\* error listing every violation as a path and message pair and returns no
\* map; the path of a violation of the document as a whole is "root" and
\* the path of a violation inside a property is that property's name, so
\* that a violation inside a property itself named "root" carries the
\* path "root" too.
C15_AllViolationsReported ==
    (Validated /\ ~validator_call.schema.empty) =>
        /\ (validator_call.pc = "raised") <=> (MissingRequired \cup Mistyped # {})
        /\ validator_call.pc = "raised" =>
             /\ validator_call.value = EmptyMap
             /\ \A p \in MissingRequired : \E e \in validator_call.errors :
                    e.keyword = "required" /\ e.subject = p /\ e.path = "root"
             /\ \A p \in Mistyped : \E e \in validator_call.errors :
                    e.keyword = "type" /\ e.path = p
             /\ Cardinality(validator_call.errors)
                    = Cardinality(MissingRequired) + Cardinality(Mistyped)
             /\ \A e \in validator_call.errors :
                    /\ e.keyword = "required" => e.path = "root"
                    /\ e.keyword = "type" => e.path \in Mistyped

\* three violations in one error: two missing required properties and an
\* integer where the schema wants a string
C15_Witness ==
    /\ validator_call.pc = "raised"
    /\ MissingRequired = {"name", "tone"}
    /\ Mistyped = {"root"}
    /\ Cardinality(validator_call.errors) = 3

\* the schema requires "name" and the variables omit it
NameOmitted ==
    /\ Validated
    /\ ~validator_call.schema.empty
    /\ "name" \in MissingRequired

\* C16 as stated: when the schema requires "name" and the variables omit
\* it, the call fails with an error whose path for that violation is
\* "name".
C16_MissingRequiredPathIsName ==
    NameOmitted =>
        /\ validator_call.pc = "raised"
        /\ \E e \in validator_call.errors :
               e.keyword = "required" /\ e.subject = "name" /\ e.path = "name"

\* C16 amended: when the schema requires "name" and the variables omit it,
\* the call fails with an error whose path for that violation is "root";
\* the missing property is named by the message only, and no violation is
\* reported at path "name".
C16_MissingRequiredPathIsRoot ==
    NameOmitted =>
        /\ validator_call.pc = "raised"
        /\ \E e \in validator_call.errors :
               e.keyword = "required" /\ e.subject = "name" /\ e.path = "root"
        /\ \A e \in validator_call.errors : e.path # "name"

\* the scenario itself: "name" required, no variables sent
C16_Witness ==
    /\ validator_call.pc = "raised"
    /\ validator_call.schema.required = {"name"}
    /\ validator_call.variables = EmptyMap
    /\ validator_call.errors =
           {[path |-> "root", keyword |-> "required", subject |-> "name"]}

\* C17: when the schema is empty or absent the call returns the variables
\* unchanged, whatever the map: nothing is raised and no key is added,
\* removed or altered.
C17_NoSchemaNoValidation ==
    (Validated /\ validator_call.schema.empty) =>
        /\ validator_call.pc = "returned"
        /\ validator_call.errors = {}
        /\ validator_call.value = validator_call.variables

\* a map with an integer and three other keys returned as sent
C17_Witness ==
    /\ validator_call.pc = "returned"
    /\ validator_call.schema = NoSchema
    /\ validator_call.value =
           ("name" :> "#7") @@ ("tone" :> "a") @@ ("topic" :> "b")
           @@ ("root" :> "a")

\* the call of calculate_cost has returned
CostReturned == cost_call.pc = "returned"

\* the model name is one of the provider's price table
ModelInTable == cost_call.model \in DOMAIN Pricing(cost_call.provider)

\* the table entry (pin, pout) the call is charged at
PriceApplied ==
    LET pricing == Pricing(cost_call.provider)
    IN  IF ModelInTable THEN pricing[cost_call.model]
        ELSE pricing[FallbackModel(cost_call.provider)]

\* the cost is x / scale rounded to the nearest micro-USD (a half may go
\* either way)
RoundsTo(cost, x, scale) ==
    /\ 2 * (scale * cost - x) <= scale
    /\ 2 * (x - scale * cost) <= scale

\* C18 as stated: for every token count t >= 0 and every model of a
\* provider's price table, calculate_cost(t, model) is
\* 0.75*t/1000*pin + 0.25*t/1000*pout rounded to 6 decimal places, that is
\* (3*t*pin + t*pout) / 4000 micro-USD rounded to a whole micro-USD; 1000
\* tokens at 0.03 and 0.06 cost 0.0375.
C18_CostOfExactSplit ==
    (CostReturned /\ ModelInTable) =>
        LET t == cost_call.tokens
            pin == PriceApplied.input
            pout == PriceApplied.output
        IN  /\ RoundsTo(cost_call.cost, 3 * t * pin + t * pout, 4000)
            /\ (t = 1000 /\ pin = 30000 /\ pout = 60000)
               => cost_call.cost = 37500

\* C18 amended: calculate_cost(t, model) is
\* int(0.75*t)/1000*pin + int(0.25*t)/1000*pout rounded to 6 decimal
\* places, the two shares being cut to whole tokens first; it equals the
\* stated formula when t is a multiple of 4, and 1000 tokens at 0.03 and
\* 0.06 cost 0.0375.
C18_CostOfWholeTokenSplit ==
    (CostReturned /\ ModelInTable) =>
        LET t == cost_call.tokens
            pin == PriceApplied.input
            pout == PriceApplied.output
        IN  /\ RoundsTo(cost_call.cost,
                        ((3 * t) \div 4) * pin + (t \div 4) * pout, 1000)
            /\ t % 4 = 0
               => RoundsTo(cost_call.cost, 3 * t * pin + t * pout, 4000)
            /\ (t = 1000 /\ pin = 30000 /\ pout = 60000)
               => cost_call.cost = 37500

\* the scenario: 1000 tokens on gpt-4
C18_Witness ==
    /\ CostReturned
    /\ cost_call.provider = "openai" /\ cost_call.model = "gpt-4"
    /\ cost_call.tokens = 1000 /\ cost_call.cost = 37500

\* C19: for every provider and model name, calculate_cost is never
\* negative and never decreases when the token count grows: the cost
\* returned for t tokens is at least the cost of every smaller count.
C19_CostMonotone ==
    CostReturned =>
        /\ cost_call.cost >= 0
        /\ \A t1 \in TokenCounts :
               t1 <= cost_call.tokens
               => calculate_cost(cost_call.provider, t1, cost_call.model)
                      <= cost_call.cost

\* 7 tokens on claude-3-haiku cost 0.000003, one token less 0.000002
C19_Witness ==
    /\ CostReturned
    /\ cost_call.provider = "claude"
    /\ cost_call.model = "claude-3-haiku-20240307"
    /\ cost_call.tokens = 7 /\ cost_call.cost = 3
    /\ calculate_cost("claude", 6, "claude-3-haiku-20240307") = 2

\* C20: given the same token count and the same input and output price,
\* the three implementations return the same cost, for a model of the
\* table and for a model the table does not list (charged at the
\* provider's default model).
C20_ProvidersAgree ==
    CostReturned =>
        \A q \in ProviderNames :
            LET other == [input |-> 30000, output |-> 60000]
                listed == ("listed" :> PriceApplied)
                              @@ (FallbackModel(q) :> other)
                default == (FallbackModel(q) :> PriceApplied)
            IN  /\ ProviderCost(q, listed, cost_call.tokens, "listed")
                       = cost_call.cost
                /\ ProviderCost(q, default, cost_call.tokens, "unlisted")
                       = cost_call.cost

\* 1000 tokens sent to claude under the model name "gpt-4": charged at
\* claude-3-sonnet prices
C20_Witness ==
    /\ CostReturned
    /\ cost_call.provider = "claude" /\ cost_call.model = "gpt-4"
    /\ cost_call.tokens = 1000 /\ cost_call.cost = 6000

\* C21: for a model name that is not in the provider's price table and a
\* token count the vendor reported, calculate_cost does not raise and
\* returns exactly what it returns for the provider's default model
\* (gpt-4, gemini-pro, claude-3-sonnet-20240229) at the same token count.
C21_UnknownModelFallsBack ==
    (cost_call.pc \in {"returned", "raised"} /\ cost_call.tokens >= 0
         /\ ~ModelInTable)
    => /\ cost_call.pc = "returned"
       /\ FallbackModel(cost_call.provider)
              \in DOMAIN Pricing(cost_call.provider)
       /\ cost_call.cost =
              calculate_cost(cost_call.provider, cost_call.tokens,
                             FallbackModel(cost_call.provider))

\* 40 tokens sent to openai under a name its table does not list: charged
\* as gpt-4, 0.0015
C21_Witness ==
    /\ CostReturned
    /\ cost_call.provider = "openai" /\ cost_call.model = "gpt-4o"
    /\ cost_call.tokens = 40 /\ cost_call.cost = 1500

\* C22: calculate_cost is a pure function: two calls of one instance with
\* the same (tokens, model) return the same cost, whatever calculate_cost
\* and execute calls come before or between them, and the instance's price
\* table stays as __init__ built it.
C22_CostIsPure ==
    /\ \A i, j \in DOMAIN instance.log :
           LET a == instance.log[i]
               b == instance.log[j]
           IN  (a.op = "calculate_cost" /\ b.op = "calculate_cost"
                    /\ a.tokens = b.tokens /\ a.model = b.model)
               => a.cost = b.cost
    /\ instance.name # None => instance.pricing = Pricing(instance.name)

\* an unlisted model priced twice with an execute call in between
C22_Witness ==
    /\ Len(instance.log) = 3
    /\ instance.log[1].op = "calculate_cost"
    /\ instance.log[1].model = "gpt-4o"
    /\ instance.log[2].op = "execute"
    /\ instance.log[3] = instance.log[1]
    /\ instance.log[1].cost > 0

\* the request passes prompt lookup and variable validation, so that
\* execute_prompt goes on to resolve the provider (lines 301-309)
ReachesResolution(raw) ==
    /\ raw.prompt_id \in DOMAIN ExpertPrompts
    /\ validate_variables_against_schema(
           PromptExecutionRequest(raw).variables,
           ExpertPrompts[raw.prompt_id].variables_schema).ok

\* the name execute_prompt hands to LLMFactory.get_provider (line 302)
ResolvedName(raw) == Or(PromptExecutionRequest(raw).llm_provider, "openai")

\* C23: get_provider builds an implementation exactly for the names
\* list_providers returns (openai, gemini, claude), returning it when its
\* construction succeeds; for any other name it fails with an error listing
\* all of those names, and execute_prompt answers that failure with a 400
\* without calling a vendor.
C23_UnknownProviderRejected ==
    /\ list_providers = {"openai", "gemini", "claude"}
    /\ \A c \in Calls :
         (calls[c].pc # "idle" /\ ReachesResolution(calls[c].raw)) =>
             LET name == ResolvedName(calls[c].raw)
             IN  /\ name \notin list_providers
                    => /\ Done(c)
                       /\ calls[c].response.code = 400
                       /\ calls[c].response.detail = "unknown_provider"
                       /\ calls[c].response.errors = list_providers
                       /\ calls[c].executes = 0
                 /\ name \in list_providers
                    => /\ calls[c].response.detail # "unknown_provider"
                       /\ CredentialVar(name) \in environ
                          => get_provider(name, environ).provider = name
                       /\ calls[c].executes > 0
                          => calls[c].llm_provider_name = name

\* the request naming provider "foo" answered 400 with the three names,
\* next to a request dispatched to gemini
C23_Witness ==
    \E c, d \in Calls :
        /\ Done(c) /\ calls[c].raw.llm_provider = "foo"
        /\ calls[c].response.code = 400
        /\ calls[c].response.errors = {"openai", "gemini", "claude"}
        /\ calls[d].executes = 1 /\ calls[d].llm_provider_name = "gemini"

\* C24: when the credential of the selected provider is not in the
\* environment, the request fails at get_provider, before the template is
\* rendered and before any vendor call: it ends with a 400 naming the
\* missing credential and writes nothing, and no call ever reaches
\* execute on a provider whose credential is not set.
C24_MissingCredentialFailsFast ==
    /\ \A c \in Calls :
         (calls[c].pc # "idle" /\ ReachesResolution(calls[c].raw)
              /\ ResolvedName(calls[c].raw) \in ProviderNames
              /\ CredentialVar(ResolvedName(calls[c].raw)) \notin environ)
         => /\ Done(c)
            /\ calls[c].response.code = 400
            /\ calls[c].response.detail = "credential_not_set"
            /\ calls[c].response.errors
                   = {CredentialVar(ResolvedName(calls[c].raw))}
            /\ calls[c].executes = 0
            /\ calls[c].written = {}
    /\ \A c \in Calls :
         calls[c].executes > 0
         => CredentialVar(calls[c].llm_provider_name) \in environ

\* OPENAI_API_KEY is not set: a request whose template also lacks a
\* variable is answered with the credential error, while a request for
\* claude is dispatched
C24_Witness ==
    \E c, d \in Calls :
        /\ "OPENAI_API_KEY" \notin environ
        /\ Done(c) /\ calls[c].raw.prompt_id = 3
        /\ calls[c].response.detail = "credential_not_set"
        /\ calls[d].executes = 1 /\ calls[d].llm_provider_name = "claude"

\* C25: when the caller omits the provider the call is dispatched to
\* openai, and when the caller omits the model it is dispatched with a
\* model of the provider selected for that request, never with another
\* provider's model.
C25_DefaultModelOfProvider ==
    \A c \in Calls :
        calls[c].executes > 0
        => /\ calls[c].raw.llm_provider = Omitted
              => calls[c].llm_provider_name = "openai"
           /\ calls[c].raw.llm_model = Omitted
              => calls[c].llm_model_name
                     \in DOMAIN Pricing(calls[c].llm_provider_name)

\* the variable map validation produced for the request of a call: the
\* map the prompt is rendered with (line 313)
EnrichedVariables(raw) ==
    validate_variables_against_schema(
        PromptExecutionRequest(raw).variables,
        ExpertPrompts[raw.prompt_id].variables_schema).value

\* C27: every record of the ledger, success or error, stores as its
\* variables the enriched map validation produced for that attempt.
C27_RecordStoresEnrichedVariables ==
    \A c \in Calls :
        Done(c) => \A id \in calls[c].written :
                       ledger[id].variables = EnrichedVariables(calls[c].raw)

RECURSIVE CounterSum(_, _)
\* the sum of the counter's values over the label sets in keys
CounterSum(counter, keys) ==
    IF keys = {} THEN 0
    ELSE LET k == CHOOSE x \in keys : TRUE
         IN  counter[k] + CounterSum(counter, keys \ {k})

\* prompt_executions_total summed over the labels with the given status
CountedWith(status) ==
    CounterSum(prompt_executions_total,
               {k \in DOMAIN prompt_executions_total : k[3] = status})

\* the rows of the ledger with the given status
RowsWith(status) ==
    {id \in 1..Len(ledger) : ledger[id].status = status}

\* the finished calls that passed line 323 or entered the handler
CountedCalls ==
    {c \in Calls : Done(c) /\ (calls[c].executes > 0 \/ calls[c].commit # None)}

\* C28: prompt_executions_total is incremented exactly once for each call
\* that reaches the provider call (or the handler), so the increments add
\* up to the number of such calls, also when the record write after a
\* successful provider call fails; and every record written has an
\* increment labelled with its status.
C28_CountedOnce ==
    /\ CountedWith("success") + CountedWith("error")
           = Cardinality(CountedCalls)
    /\ CountedWith("success") >= Cardinality(RowsWith("success"))
    /\ CountedWith("error") >= Cardinality(RowsWith("error"))

\* C29: the provider and model names of an error record, and the provider
\* label of the error counter, are the names execute_prompt resolved and
\* dispatched to for that attempt, also when the caller passed null and
\* openai / gpt-4 were dispatched.
C29_ErrorRecordNamesDispatch ==
    \A c \in Calls :
        (Done(c) /\ calls[c].executes > 0)
        => \A id \in calls[c].written :
               ledger[id].status = "error"
               => /\ ledger[id].llm_provider = calls[c].llm_provider_name
                  /\ ledger[id].llm_model = calls[c].llm_model_name
                  /\ <<calls[c].raw.prompt_id, calls[c].llm_provider_name,
                       "error">> \in DOMAIN prompt_executions_total

\* C26: when the request carries no max_tokens, the cap applied to the
\* vendor call is the default the selected provider declares (1024 for
\* the Claude provider), not a null cap passed down by execute_prompt.
C26_ProviderDefaultCap ==
    \A c \in Calls :
        (calls[c].executes > 0 /\ calls[c].raw.max_tokens = NoneTok)
        => calls[c].max_tokens = DefaultMaxTokens(calls[c].llm_provider_name)

\* the rows of a user in a ledger, with their ids
OwnRows(led, user_id) ==
    { <<i, led[i]>> : i \in { j \in DOMAIN led : led[j].user_id = user_id } }

\* what the read held in read_call answers when it is asked of ledger led
ReadAnswer(led) ==
    IF read_call.op = "get_execution_history"
    THEN [code |-> 200, detail |-> None,
          rows |-> get_execution_history(led, read_call.user_id,
                                         read_call.skip, read_call.limit,
                                         read_call.prompt_id,
                                         read_call.status)]
    ELSE get_execution(led, read_call.execution_id, read_call.user_id)

\* C30: ledger reads are isolated per caller. A read answers the same on
\* every ledger that holds the same rows of the caller, whatever rows of
\* other users it holds; a listing holds only rows of the caller that
\* match the prompt_id and status filters, newest first; get_execution on
\* the id of another user's row answers 404 with the detail and the empty
\* body it answers for an id that does not exist.
C30_ReadsIsolatedPerCaller ==
    read_call.pc = "returned" =>
        /\ \A other \in ReadLedgers :
               OwnRows(other, read_call.user_id)
                   = OwnRows(ledger, read_call.user_id)
               => ReadAnswer(other) =
                      [code |-> read_call.code, detail |-> read_call.detail,
                       rows |-> read_call.rows]
        /\ read_call.op = "get_execution_history" =>
               /\ \A i \in DOMAIN read_call.rows :
                      /\ read_call.rows[i].id \in DOMAIN ledger
                      /\ read_call.rows[i].row = ledger[read_call.rows[i].id]
                      /\ read_call.rows[i].row.user_id = read_call.user_id
                      /\ (read_call.prompt_id \in {1, 2} =>
                            read_call.rows[i].row.prompt_id
                                = read_call.prompt_id)
                      /\ (read_call.status \in {"success", "error"} =>
                            read_call.rows[i].row.status = read_call.status)
               /\ \A i, j \in DOMAIN read_call.rows :
                      i < j => read_call.rows[i].id > read_call.rows[j].id
        /\ read_call.op = "get_execution" =>
               IF /\ read_call.execution_id \in DOMAIN ledger
                  /\ ledger[read_call.execution_id].user_id
                         = read_call.user_id
               THEN /\ read_call.code = 200
                    /\ read_call.rows =
                           <<[id |-> read_call.execution_id,
                              row |-> ledger[read_call.execution_id]]>>
               ELSE /\ read_call.code = 404
                    /\ read_call.detail = "Execution not found"
                    /\ read_call.rows = << >>

\* a user asks for the id of a row that another user owns
C30_Witness ==
    /\ read_call.pc = "returned"
    /\ read_call.op = "get_execution"
    /\ read_call.execution_id \in DOMAIN ledger
    /\ ledger[read_call.execution_id].user_id # read_call.user_id
    /\ \E i \in DOMAIN ledger : ledger[i].user_id = read_call.user_id

====
